---- MODULE Spec2Model ----
(***************************************************************************)
(* Model of backend/mastery.py: the event log and the concept registry     *)
(* (two SQLite tables), the in-memory FAISS index derived from the         *)
(* registry, the decay-weighted score aggregation and the weak / strong /  *)
(* neutral classifier with its nearest-neighbour fallback.                 *)
(*                                                                         *)
(* Representation.                                                         *)
(*  - A text is a sequence of one-character strings.                       *)
(*  - An optional value (Python None or a value) is <<>> or <<v>>.         *)
(*  - Time is counted in half-lives (half_life_days * 86400 seconds), so   *)
(*    EXP(-decay_lambda * age) is 2^(-age) for the whole ages of the model.*)
(*  - A raw sum is an integer number of 1/RAW_ONE, a score an integer      *)
(*    number of 1/SCORE_ONE, a cosine an integer number of 1/SIM_ONE.      *)
(*  - An embedding is a 4-vector of integers of Euclidean length VEC_LEN,  *)
(*    so the inner product of two embeddings is their cosine in 1/SIM_ONE. *)
(***************************************************************************)
EXTENDS Integers, Sequences, FiniteSets

VARIABLES
    events,       \* table events: sequence of committed rows, in rowid order
    concepts,     \* table concepts: sequence of committed rows, in rowid order
    FAISS_INDEX,  \* the module global: None or <<index>>
    FAISS_LOCK,   \* the module lock: "free" or the thread that holds it
    now,          \* int(time.time()), in half-lives
    pc,           \* pc[t]: where thread t stands in its call
    fr,           \* fr[t]: the locals of the call thread t is in
    ret,          \* ret[t]: how the last call of thread t ended
    acked,        \* the event rows whose add_event call has returned normally
    is_streaming, \* ScreenPipeRealtime.is_streaming of the module's _realtime
    _poll_task,   \* ScreenPipeRealtime._poll_task: None or <<task>>
    tasks,        \* tasks[k]: where the k-th _poll_loop task of the event loop stands
    handler       \* handler[h]: where tool handler h stands in its coroutine

vars == <<events, concepts, FAISS_INDEX, FAISS_LOCK, now, pc, fr, ret, acked,
          is_streaming, _poll_task, tasks, handler>>

mastery_vars == <<events, concepts, FAISS_INDEX, FAISS_LOCK, now, pc, fr, ret, acked>>

rt_vars == <<is_streaming, _poll_task, tasks, handler>>

(***************************************************************************)
(* Bounds of the model.                                                    *)
(***************************************************************************)
MaxEvents == 2      \* add_event calls accepted, finished or in flight
MaxNow == 3         \* the clock runs over 1..MaxNow
MaxPhrases == 2     \* longest phrase list handed to classify
MaxTasks == 3       \* _poll_loop tasks created over one run of the server

Threads == {"t1", "t2"}

\* The _poll_loop tasks the event loop can hold, in the order of their creation,
\* and the tool handlers (coroutines of start_window_monitoring and
\* stop_window_monitoring) the event loop can run at once.
TaskIds == 1..MaxTasks

Handlers == {"h1", "h2"}

\* A handler outside any call; inside stop_realtime_monitoring it stands at
\* "await self._poll_task" and remembers the task it awaits.
HandlerIdle == [pc |-> "idle", awaits |-> 0]

None == <<>>
Some(v) == <<v>>

(***************************************************************************)
(* Units.                                                                  *)
(***************************************************************************)
VEC_LEN == 5
SIM_ONE == VEC_LEN * VEC_LEN          \* cosine 1.0
SCORE_ONE == 1000000 * SIM_ONE        \* score 1.0
WEIGHT_ONE == 10                      \* weight 1.0
RAW_ONE == WEIGHT_ONE * 8             \* raw sum 1.0; resolves ages 0..3

(***************************************************************************)
(* str.lower() and str.strip() over the alphabet a b c A B C and blank.    *)
(***************************************************************************)
LowerChar(c) ==
    CASE c = "A" -> "a"
      [] c = "B" -> "b"
      [] c = "C" -> "c"
      [] OTHER -> c

Lower(s) == [i \in 1..Len(s) |-> LowerChar(s[i])]

IsSpace(c) == c = " "

RECURSIVE LStrip(_)
LStrip(s) ==
    IF s # <<>> /\ IsSpace(Head(s)) THEN LStrip(Tail(s)) ELSE s

RECURSIVE RStrip(_)
RStrip(s) ==
    IF s # <<>> /\ IsSpace(s[Len(s)]) THEN RStrip(SubSeq(s, 1, Len(s) - 1)) ELSE s

Strip(s) == RStrip(LStrip(s))

\* concept.lower().strip()
Normalize(s) == Strip(Lower(s))

(***************************************************************************)
(* The embedding provider: a fixed unit vector per text.                   *)
(***************************************************************************)
Dot(u, v) == u[1] * v[1] + u[2] * v[2] + u[3] * v[3] + u[4] * v[4]

_embed(text) ==
    CASE text = <<"a">> -> <<5, 0, 0, 0>>
      [] text = <<"b">> -> <<0, 5, 0, 0>>
      [] text = <<"c">> -> <<3, 4, 0, 0>>
      [] text = <<"a", "b">> -> <<1, 2, 2, 4>>
      [] text = <<"b", "c">> -> <<4, 3, 0, 0>>
      [] text = <<"p", "r", "i", "o", "r", "s">> -> <<0, 0, 3, 4>>
      [] text = <<"p", "o", "s", "t", "e", "r", "i", "o", "r">> -> <<0, 0, 4, 3>>
      [] text = <<"g", "r", "a", "d", "i", "e", "n", "t", " ",
                  "d", "e", "s", "c", "e", "n", "t">> -> <<0, 3, 0, 4>>
      [] OTHER -> <<0, 0, 0, 5>>

\* vec.tobytes(): one byte per component, two's complement
ToByte(n) == (n + 256) % 256
tobytes(vec) == [i \in 1..Len(vec) |-> ToByte(vec[i])]

\* np.frombuffer(b, dtype=np.float32)
FromByte(b) == IF b >= 128 THEN b - 256 ELSE b
_bytes_to_vec(b) == [i \in 1..Len(b) |-> FromByte(b[i])]

(***************************************************************************)
(* _EVENT_WEIGHTS, in 1/WEIGHT_ONE.                                        *)
(***************************************************************************)
_EVENT_WEIGHTS ==
    [et \in {"confusion", "assumed_mastery", "recall_correct", "recall_fail"} |->
        CASE et = "confusion" -> -10
          [] et = "assumed_mastery" -> 1
          [] et = "recall_correct" -> 10
          [] et = "recall_fail" -> -10]

(***************************************************************************)
(* squash: 1 / (1 + pow(2.71828, -x)) for x = -3.0, -3.0 + 1/80, ..., 3.0, *)
(* in millionths, rounded to nearest. Beyond the table the model knows the *)
(* two ends of the double-precision result: from x = 37 on, 1 + pow(...)   *)
(* rounds to 1.0 and the score is exactly 1.0; from x = -710 down,         *)
(* pow(2.71828, -x) raises OverflowError.                                  *)
(***************************************************************************)
SQUASH_MAX == 3 * RAW_ONE
SATURATE_AT == 37 * RAW_ONE
OVERFLOW_AT == 710 * RAW_ONE

SquashTable == <<
    47426, 47994, 48568, 49149, 49737, 50331, 50932, 51539, 52154, 52775,
    53403, 54039, 54681, 55331, 55988, 56653, 57324, 58004, 58690, 59385,
    60087, 60797, 61514, 62240, 62973, 63715, 64465, 65223, 65989, 66764,
    67547, 68338, 69139, 69947, 70765, 71591, 72427, 73271, 74124, 74987,
    75858, 76739, 77630, 78529, 79439, 80358, 81286, 82225, 83173, 84131,
    85099, 86077, 87066, 88065, 89074, 90093, 91123, 92164, 93215, 94277,
    95350, 96433, 97528, 98634, 99751, 100879, 102018, 103169, 104331, 105505,
    106691, 107888, 109097, 110318, 111551, 112796, 114053, 115322, 116603, 117897,
    119203, 120522, 121853, 123197, 124554, 125923, 127305, 128700, 130109, 131530,
    132964, 134412, 135873, 137347, 138835, 140336, 141851, 143380, 144922, 146478,
    148047, 149631, 151228, 152840, 154465, 156105, 157759, 159427, 161109, 162806,
    164517, 166242, 167982, 169736, 171505, 173288, 175086, 176899, 178727, 180569,
    182426, 184297, 186184, 188085, 190002, 191933, 193879, 195840, 197816, 199807,
    201813, 203834, 205871, 207922, 209988, 212069, 214165, 216276, 218403, 220544,
    222700, 224872, 227058, 229259, 231475, 233706, 235953, 238213, 240489, 242780,
    245085, 247405, 249740, 252089, 254454, 256832, 259225, 261633, 264055, 266491,
    268942, 271406, 273885, 276378, 278885, 281406, 283940, 286489, 289051, 291626,
    294215, 296817, 299433, 302062, 304703, 307358, 310026, 312706, 315399, 318104,
    320821, 323551, 326293, 329047, 331812, 334590, 337378, 340178, 342990, 345812,
    348645, 351489, 354344, 357209, 360084, 362969, 365864, 368769, 371684, 374608,
    377541, 380483, 383434, 386393, 389361, 392337, 395321, 398313, 401312, 404319,
    407333, 410355, 413382, 416417, 419458, 422505, 425558, 428616, 431680, 434749,
    437824, 440903, 443986, 447074, 450166, 453262, 456361, 459464, 462570, 465679,
    468791, 471905, 475021, 478139, 481259, 484380, 487503, 490626, 493750, 496875,
    500000, 503125, 506250, 509374, 512497, 515620, 518741, 521861, 524979, 528095,
    531209, 534321, 537430, 540536, 543639, 546738, 549834, 552926, 556014, 559097,
    562176, 565251, 568320, 571384, 574442, 577495, 580542, 583583, 586618, 589645,
    592667, 595681, 598688, 601687, 604679, 607663, 610639, 613607, 616566, 619517,
    622459, 625392, 628316, 631231, 634136, 637031, 639916, 642791, 645656, 648511,
    651355, 654188, 657010, 659822, 662622, 665410, 668188, 670953, 673707, 676449,
    679179, 681896, 684601, 687294, 689974, 692642, 695297, 697938, 700567, 703183,
    705785, 708374, 710949, 713511, 716060, 718594, 721115, 723622, 726115, 728594,
    731058, 733509, 735945, 738367, 740775, 743168, 745546, 747911, 750260, 752595,
    754915, 757220, 759511, 761787, 764047, 766294, 768525, 770741, 772942, 775128,
    777300, 779456, 781597, 783724, 785835, 787931, 790012, 792078, 794129, 796166,
    798187, 800193, 802184, 804160, 806121, 808067, 809998, 811915, 813816, 815703,
    817574, 819431, 821273, 823101, 824914, 826712, 828495, 830264, 832018, 833758,
    835483, 837194, 838891, 840573, 842241, 843895, 845535, 847160, 848772, 850369,
    851953, 853522, 855078, 856620, 858149, 859664, 861165, 862653, 864127, 865588,
    867036, 868470, 869891, 871300, 872695, 874077, 875446, 876803, 878147, 879478,
    880797, 882103, 883397, 884678, 885947, 887204, 888449, 889682, 890903, 892112,
    893309, 894495, 895669, 896831, 897982, 899121, 900249, 901366, 902472, 903567,
    904650, 905723, 906785, 907836, 908877, 909907, 910926, 911935, 912934, 913923,
    914901, 915869, 916827, 917775, 918714, 919642, 920561, 921471, 922370, 923261,
    924142, 925013, 925876, 926729, 927573, 928409, 929235, 930053, 930861, 931662,
    932453, 933236, 934011, 934777, 935535, 936285, 937027, 937760, 938486, 939203,
    939913, 940615, 941310, 941996, 942676, 943347, 944012, 944669, 945319, 945961,
    946597, 947225, 947846, 948461, 949068, 949669, 950263, 950851, 951432, 952006,
    952574
>>

\* pow(2.71828, -x) raises OverflowError
squash_raises(x) == x <= -OVERFLOW_AT

squash(x) ==
    CASE x >= SATURATE_AT -> SCORE_ONE
      [] squash_raises(x) -> 0        \* no value: the call raises
      [] OTHER -> SIM_ONE * SquashTable[x + SQUASH_MAX + 1]

(***************************************************************************)
(* mastery_scores: SELECT concept, SUM(weight * EXP(-lambda * (now - ts))) *)
(* FROM events WHERE user_id = ? GROUP BY concept, then squash.            *)
(***************************************************************************)
\* Decay without the decay: every event counts in full whatever its age
Decay_none(age) == 8

\* Decay with the sign of the exponent lost: an event counts more as it ages
Decay_growing(age) ==
    CASE age = 0 -> 1
      [] age = 1 -> 2
      [] age = 2 -> 4
      [] age = 3 -> 8

\* EXP(-decay_lambda * age) in 1/8, age in half-lives
Decay(age) ==
    CASE age = 0 -> 8
      [] age = 1 -> 4
      [] age = 2 -> 2
      [] age = 3 -> 1

\* SumRows without WHERE user_id = ?
RECURSIVE SumRows_allusers(_, _, _, _)
SumRows_allusers(rows, user_id, concept, t_now) ==
    IF rows = <<>> THEN 0
    ELSE LET r == Head(rows)
             rest == SumRows_allusers(Tail(rows), user_id, concept, t_now)
         IN IF r.concept = concept
            THEN r.weight * Decay(t_now - r.ts) + rest
            ELSE rest

RECURSIVE SumRows(_, _, _, _)
SumRows(rows, user_id, concept, t_now) ==
    IF rows = <<>> THEN 0
    ELSE LET r == Head(rows)
             rest == SumRows(Tail(rows), user_id, concept, t_now)
         IN IF r.user_id = user_id /\ r.concept = concept
            THEN r.weight * Decay(t_now - r.ts) + rest
            ELSE rest

\* GroupKeys without WHERE user_id = ?
GroupKeys_allusers(rows, user_id) ==
    {rows[i].concept : i \in 1..Len(rows)}

\* lines 141-143: the groups of GROUP BY concept among WHERE user_id = ?
GroupKeys(rows, user_id) ==
    {rows[i].concept : i \in {j \in 1..Len(rows) : rows[j].user_id = user_id}}

mastery_scores(user_id) ==
    [c \in GroupKeys(events, user_id) |-> squash(SumRows(events, user_id, c, now))]

\* DecayAt with decay_lambda = 0.69314718 / 86400: half_life_days left out
DecayAt_fixed(age, half_life_days) == Decay(age)

\* line 135 and EXP(-decay_lambda * age) in 1/8, rounded to nearest, for a
\* half-life of half_life_days; age and half_life_days count in units of the
\* default half-life of 30 days
DecayAt(age, half_life_days) ==
    CASE half_life_days = 1 -> Decay(age)
      [] half_life_days = 2 ->
            CASE age = 0 -> 8
              [] age = 1 -> 6
              [] age = 2 -> 4
              [] age = 3 -> 3

\* SUM(weight * EXP(-decay_lambda * (now - ts))) for a half-life given
RECURSIVE SumRowsAt(_, _, _, _, _)
SumRowsAt(rows, user_id, concept, t_now, half_life_days) ==
    IF rows = <<>> THEN 0
    ELSE LET r == Head(rows)
             rest == SumRowsAt(Tail(rows), user_id, concept, t_now, half_life_days)
         IN IF r.user_id = user_id /\ r.concept = concept
            THEN r.weight * DecayAt(t_now - r.ts, half_life_days) + rest
            ELSE rest

\* lines 138-143: the rows of the query, concept |-> raw sum
raw_rows(user_id, half_life_days, t_now) ==
    [c \in GroupKeys(events, user_id) |->
        SumRowsAt(events, user_id, c, t_now, half_life_days)]

\* line 148: squash raises for one of the rows, and mastery_scores with it
mastery_scores_raises(user_id) ==
    \E c \in GroupKeys(events, user_id) :
        squash_raises(SumRows(events, user_id, c, now))

\* dict.get(key): None or the value
Get(d, key) == IF key \in DOMAIN d THEN Some(d[key]) ELSE None

(***************************************************************************)
(* The FAISS index: IndexFlatIP with the key list attached.                *)
(***************************************************************************)
\* index = IndexFlatIP(); index.add(vecs); index.concepts = [...]
BuildIndex(rows) ==
    [ntotal |-> Len(rows),
     vecs |-> [i \in 1..Len(rows) |-> _bytes_to_vec(rows[i].embedding)],
     concepts |-> [i \in 1..Len(rows) |-> rows[i].concept]]

\* index.search(vec, 1): the first position of greatest inner product, 0-based
Search(index, vec) ==
    LET best == CHOOSE i \in 1..index.ntotal :
                    \A j \in 1..index.ntotal :
                        \/ Dot(index.vecs[i], vec) > Dot(index.vecs[j], vec)
                        \/ Dot(index.vecs[i], vec) = Dot(index.vecs[j], vec) /\ i <= j
    IN [sim |-> Dot(index.vecs[best], vec), idx |-> best - 1]

DEFAULT == -(SCORE_ONE \div 2)        \* default = -0.5
CUTOFF == SIM_ONE \div 5              \* 0.2
WEAK_THRESH == (SCORE_ONE \div 10) * 4     \* weak_thresh = 0.4
STRONG_THRESH == (SCORE_ONE \div 10) * 7   \* strong_thresh = 0.7

\* Blend with the two weights exchanged
Blend_swapped(neighbour_score, sim, default) ==
    (neighbour_score * (SIM_ONE - sim) + default * sim) \div SIM_ONE

\* (neighbour_score * sim) + (default * (1 - sim))
Blend(neighbour_score, sim, default) ==
    (neighbour_score * sim + default * (SIM_ONE - sim)) \div SIM_ONE

(***************************************************************************)
(* Threads and their frames.                                               *)
(***************************************************************************)
NoFrame ==
    [op |-> "none", user_id |-> "", text |-> <<>>, concept |-> <<>>,
     w |-> 0, ts |-> 0, vec |-> <<>>, txn |-> None, rows |-> <<>>,
     phrases |-> <<>>, weak_thresh |-> 0, strong_thresh |-> 0,
     scores |-> <<>>, i |-> 0, weak |-> <<>>, strong |-> <<>>,
     neutral |-> <<>>, key |-> <<>>, sim |-> 0, idx |-> 0, s |-> None,
     event_type |-> "", weight |-> None, ts_arg |-> None, now |-> 0,
     half_life_days |-> 0]

NoRet == [status |-> "none", fr |-> NoFrame]

Init ==
    /\ events = <<>>
    /\ concepts = <<>>
    /\ FAISS_INDEX = None
    /\ FAISS_LOCK = "free"
    /\ now = 1
    /\ pc = [t \in Threads |-> "idle"]
    /\ fr = [t \in Threads |-> NoFrame]
    /\ ret = [t \in Threads |-> NoRet]
    /\ acked = <<>>
    /\ is_streaming = FALSE
    /\ _poll_task = None
    /\ tasks = [k \in TaskIds |-> "unborn"]
    /\ handler = [h \in Handlers |-> HandlerIdle]

\* the call of thread t ends: normally ("ok") or with the exception named
Return(t, status, frame) ==
    /\ pc' = [pc EXCEPT ![t] = "idle"]
    /\ fr' = [fr EXCEPT ![t] = NoFrame]
    /\ ret' = [ret EXCEPT ![t] = [status |-> status, fr |-> frame]]
    /\ UNCHANGED rt_vars

\* thread t goes on inside its call
Goto(t, label, frame) ==
    /\ pc' = [pc EXCEPT ![t] = label]
    /\ fr' = [fr EXCEPT ![t] = frame]
    /\ UNCHANGED ret
    /\ UNCHANGED rt_vars

\* thread t enters a call
Call(t, label, frame) ==
    /\ pc' = [pc EXCEPT ![t] = label]
    /\ fr' = [fr EXCEPT ![t] = frame]
    /\ ret' = [ret EXCEPT ![t] = NoRet]
    /\ UNCHANGED rt_vars

\* SQLite admits one write transaction at a time
DbWriteFree(t) == \A u \in Threads \ {t} : fr[u].txn = None

InFlightAdds == Cardinality({t \in Threads : fr[t].op = "add_event"})

(***************************************************************************)
(* add_event                                                               *)
(***************************************************************************)
\* ts = ts or int(time.time())
TsOrNow(ts) == IF ts = None \/ ts = Some(0) THEN now ELSE ts[1]

\* AddEventCall with w = weight or _EVENT_WEIGHTS.get(event_type)
AddEventCall_falsy(t, U, T, E, W, TS) ==
    /\ pc[t] = "idle"
    /\ Len(events) + InFlightAdds < MaxEvents
    /\ \E user_id \in U, text \in T, event_type \in E, weight \in W, ts \in TS :
          /\ ~(event_type \notin DOMAIN _EVENT_WEIGHTS /\ weight = None)
          /\ Call(t, "upsert_select",
                  [NoFrame EXCEPT !.op = "add_event",
                                  !.user_id = user_id,
                                  !.text = text,
                                  !.event_type = event_type,
                                  !.weight = weight,
                                  !.ts_arg = ts,
                                  !.w = IF weight \in {None, Some(0)}
                                           /\ event_type \in DOMAIN _EVENT_WEIGHTS
                                        THEN _EVENT_WEIGHTS[event_type]
                                        ELSE weight[1],
                                  !.ts = TsOrNow(ts),
                                  !.concept = Normalize(text)])
    /\ UNCHANGED <<events, concepts, FAISS_INDEX, FAISS_LOCK, now, acked>>

\* lines 114-119: the weight, the timestamp and the normalized concept
AddEventEnter(t, U, T, E, W, TS) ==
    /\ pc[t] = "idle"
    /\ \E user_id \in U, text \in T, event_type \in E, weight \in W, ts \in TS :
          /\ ~(event_type \notin DOMAIN _EVENT_WEIGHTS /\ weight = None)
          /\ Call(t, "upsert_select",
                  [NoFrame EXCEPT !.op = "add_event",
                                  !.user_id = user_id,
                                  !.text = text,
                                  !.event_type = event_type,
                                  !.weight = weight,
                                  !.ts_arg = ts,
                                  !.w = IF weight = None
                                        THEN _EVENT_WEIGHTS[event_type]
                                        ELSE weight[1],
                                  !.ts = TsOrNow(ts),
                                  !.concept = Normalize(text)])
    /\ UNCHANGED <<events, concepts, FAISS_INDEX, FAISS_LOCK, now, acked>>

\* add_event is entered while the event log has room for one more row
AddEventCall(t, U, T, E, W, TS) ==
    /\ Len(events) + InFlightAdds < MaxEvents
    /\ AddEventEnter(t, U, T, E, W, TS)

\* AddEventInvalid with the check of lines 114-115 after _upsert_concept
AddEventInvalid_late(t, U, T, E, W, TS) ==
    /\ pc[t] = "idle"
    /\ \E user_id \in U, text \in T, event_type \in E, weight \in W, ts \in TS :
          /\ event_type \notin DOMAIN _EVENT_WEIGHTS /\ weight = None
          /\ concepts' = Append(concepts,
                                [concept |-> Normalize(text),
                                 canonical |-> Normalize(text),
                                 embedding |-> tobytes(_embed(Normalize(text)))])
          /\ Return(t, "ValueError",
                    [NoFrame EXCEPT !.op = "add_event",
                                    !.user_id = user_id,
                                    !.text = text])
    /\ UNCHANGED <<events, FAISS_INDEX, FAISS_LOCK, now, acked>>

\* lines 114-115: raise ValueError
AddEventInvalid(t, U, T, E, W, TS) ==
    /\ pc[t] = "idle"
    /\ \E user_id \in U, text \in T, event_type \in E, weight \in W, ts \in TS :
          /\ event_type \notin DOMAIN _EVENT_WEIGHTS /\ weight = None
          /\ Return(t, "ValueError",
                    [NoFrame EXCEPT !.op = "add_event",
                                    !.user_id = user_id,
                                    !.text = text])
    /\ UNCHANGED <<events, concepts, FAISS_INDEX, FAISS_LOCK, now, acked>>

HasConcept(concept) == \E i \in 1..Len(concepts) : concepts[i].concept = concept

\* UpsertKnown that rebuilds the index although the row exists
UpsertKnown_rebuild(t) ==
    /\ pc[t] = "upsert_select"
    /\ HasConcept(fr[t].concept)
    /\ Goto(t, "upsert_lock", fr[t])
    /\ UNCHANGED <<events, concepts, FAISS_INDEX, FAISS_LOCK, now, acked>>

\* _upsert_concept, lines 82-86: SELECT; the row exists, return
UpsertKnown(t) ==
    /\ pc[t] = "upsert_select"
    /\ HasConcept(fr[t].concept)
    /\ Goto(t, "event_insert", fr[t])
    /\ UNCHANGED <<events, concepts, FAISS_INDEX, FAISS_LOCK, now, acked>>

\* _upsert_concept, lines 82-85: SELECT; no row
UpsertNew(t) ==
    /\ pc[t] = "upsert_select"
    /\ ~HasConcept(fr[t].concept)
    /\ Goto(t, "upsert_embed", fr[t])
    /\ UNCHANGED <<events, concepts, FAISS_INDEX, FAISS_LOCK, now, acked>>

\* line 88: vec = _embed(concept)
UpsertEmbed(t) ==
    /\ pc[t] = "upsert_embed"
    /\ Goto(t, "upsert_insert", [fr[t] EXCEPT !.vec = _embed(fr[t].concept)])
    /\ UNCHANGED <<events, concepts, FAISS_INDEX, FAISS_LOCK, now, acked>>

\* UpsertEmbedFail with the provider's error swallowed: the call goes on
UpsertEmbedFail_swallowed(t) ==
    /\ pc[t] = "upsert_embed"
    /\ Goto(t, "event_insert", fr[t])
    /\ UNCHANGED <<events, concepts, FAISS_INDEX, FAISS_LOCK, now, acked>>

\* UpsertEmbedFail with the row written before the embedding is asked for
UpsertEmbedFail_rowkept(t) ==
    /\ pc[t] = "upsert_embed"
    /\ concepts' = Append(concepts, [concept |-> fr[t].concept,
                                     canonical |-> fr[t].concept,
                                     embedding |-> <<>>])
    /\ Return(t, "EmbeddingUnavailable", fr[t])
    /\ UNCHANGED <<events, FAISS_INDEX, FAISS_LOCK, now, acked>>

\* line 88: the embedding provider fails; the transaction has written nothing
UpsertEmbedFail(t) ==
    /\ pc[t] = "upsert_embed"
    /\ Return(t, "EmbeddingUnavailable", fr[t])
    /\ UNCHANGED <<events, concepts, FAISS_INDEX, FAISS_LOCK, now, acked>>

\* UpsertInsert on a concepts table without the PRIMARY KEY
UpsertInsert_nokey(t) ==
    /\ pc[t] = "upsert_insert"
    /\ DbWriteFree(t)
    /\ Goto(t, "upsert_commit",
            [fr[t] EXCEPT !.txn = Some([concept |-> fr[t].concept,
                                        canonical |-> fr[t].concept,
                                        embedding |-> tobytes(fr[t].vec)])])
    /\ UNCHANGED <<events, concepts, FAISS_INDEX, FAISS_LOCK, now, acked>>

\* lines 89-91: INSERT INTO concepts, inside the open transaction
UpsertInsert(t) ==
    /\ pc[t] = "upsert_insert"
    /\ DbWriteFree(t)
    /\ ~HasConcept(fr[t].concept)
    /\ Goto(t, "upsert_commit",
            [fr[t] EXCEPT !.txn = Some([concept |-> fr[t].concept,
                                        canonical |-> fr[t].concept,
                                        embedding |-> tobytes(fr[t].vec)])])
    /\ UNCHANGED <<events, concepts, FAISS_INDEX, FAISS_LOCK, now, acked>>

\* lines 89-91 against line 44: concept is the PRIMARY KEY, the INSERT of a
\* key another call has committed meanwhile raises sqlite3.IntegrityError
UpsertInsertDuplicate(t) ==
    /\ pc[t] = "upsert_insert"
    /\ DbWriteFree(t)
    /\ HasConcept(fr[t].concept)
    /\ Return(t, "IntegrityError", fr[t])
    /\ UNCHANGED <<events, concepts, FAISS_INDEX, FAISS_LOCK, now, acked>>

\* line 31, leaving the with block of line 82: cx.commit()
UpsertCommit(t) ==
    /\ pc[t] = "upsert_commit"
    /\ concepts' = Append(concepts, fr[t].txn[1])
    /\ Goto(t, "upsert_lock", [fr[t] EXCEPT !.txn = None])
    /\ UNCHANGED <<events, FAISS_INDEX, FAISS_LOCK, now, acked>>

\* line 93: with FAISS_LOCK
UpsertLock(t) ==
    /\ pc[t] = "upsert_lock"
    /\ FAISS_LOCK = "free"
    /\ FAISS_LOCK' = t
    /\ Goto(t, "rebuild_select", fr[t])
    /\ UNCHANGED <<events, concepts, FAISS_INDEX, now, acked>>

\* SELECT concept, embedding FROM concepts WHERE embedding IS NOT NULL
SelectEmbedded == SelectSeq(concepts, LAMBDA r : r.embedding # None)

\* RebuildSelect that clears the global before it rebuilds
RebuildSelect_clearfirst(t) ==
    /\ pc[t] = "rebuild_select"
    /\ FAISS_INDEX' = None
    /\ IF SelectEmbedded = <<>>
       THEN Goto(t, "upsert_unlock", fr[t])
       ELSE Goto(t, "rebuild_publish", [fr[t] EXCEPT !.rows = SelectEmbedded])
    /\ UNCHANGED <<events, concepts, FAISS_LOCK, now, acked>>

\* RebuildSelect that fetches the rows newest first
RebuildSelect_newestfirst(t) ==
    /\ pc[t] = "rebuild_select"
    /\ IF SelectEmbedded = <<>>
       THEN /\ FAISS_INDEX' = None
            /\ Goto(t, "upsert_unlock", fr[t])
       ELSE /\ UNCHANGED FAISS_INDEX
            /\ Goto(t, "rebuild_publish",
                    [fr[t] EXCEPT !.rows =
                        [i \in 1..Len(SelectEmbedded) |->
                            SelectEmbedded[Len(SelectEmbedded) + 1 - i]]])
    /\ UNCHANGED <<events, concepts, FAISS_LOCK, now, acked>>

\* _rebuild_faiss, lines 67-72: the rows are fetched; with no row
\* FAISS_INDEX = None and the rebuild is over
RebuildSelect(t) ==
    /\ pc[t] = "rebuild_select"
    /\ IF SelectEmbedded = <<>>
       THEN /\ FAISS_INDEX' = None
            /\ Goto(t, "upsert_unlock", fr[t])
       ELSE /\ UNCHANGED FAISS_INDEX
            /\ Goto(t, "rebuild_publish", [fr[t] EXCEPT !.rows = SelectEmbedded])
    /\ UNCHANGED <<events, concepts, FAISS_LOCK, now, acked>>

\* _rebuild_faiss, lines 74-78: the index is built, then published
RebuildPublish(t) ==
    /\ pc[t] = "rebuild_publish"
    /\ FAISS_INDEX' = Some(BuildIndex(fr[t].rows))
    /\ Goto(t, "upsert_unlock", [fr[t] EXCEPT !.rows = <<>>])
    /\ UNCHANGED <<events, concepts, FAISS_LOCK, now, acked>>

\* line 94, leaving the with block of line 93
UpsertUnlock(t) ==
    /\ pc[t] = "upsert_unlock"
    /\ FAISS_LOCK' = "free"
    /\ Goto(t, "event_insert", fr[t])
    /\ UNCHANGED <<events, concepts, FAISS_INDEX, now, acked>>

EventRow(f) ==
    [user_id |-> f.user_id, concept |-> f.concept, weight |-> f.w, ts |-> f.ts]

\* EventInsert that returns with the transaction left uncommitted
EventInsert_uncommitted(t) ==
    /\ pc[t] = "event_insert"
    /\ DbWriteFree(t)
    /\ acked' = Append(acked, EventRow(fr[t]))
    /\ Return(t, "ok", fr[t])
    /\ UNCHANGED <<events, concepts, FAISS_INDEX, FAISS_LOCK, now>>

\* lines 123-128: INSERT INTO events, inside the open transaction
EventInsert(t) ==
    /\ pc[t] = "event_insert"
    /\ DbWriteFree(t)
    /\ Goto(t, "event_commit", [fr[t] EXCEPT !.txn = Some(EventRow(fr[t]))])
    /\ UNCHANGED <<events, concepts, FAISS_INDEX, FAISS_LOCK, now, acked>>

\* EventCommit on an events table with one row per (user_id, concept): the
\* new row takes the place of the old one
EventCommit_replace(t) ==
    /\ pc[t] = "event_commit"
    /\ LET row == fr[t].txn[1]
           old == {i \in 1..Len(events) :
                     /\ events[i].user_id = row.user_id
                     /\ events[i].concept = row.concept}
       IN events' = IF old = {} THEN Append(events, row)
                    ELSE [i \in 1..Len(events) |->
                             IF i \in old THEN row ELSE events[i]]
    /\ acked' = Append(acked, fr[t].txn[1])
    /\ Return(t, "ok", [fr[t] EXCEPT !.txn = None])
    /\ UNCHANGED <<concepts, FAISS_INDEX, FAISS_LOCK, now>>

\* line 31, leaving the with block of line 123: cx.commit(); add_event returns
EventCommit(t) ==
    /\ pc[t] = "event_commit"
    /\ events' = Append(events, fr[t].txn[1])
    /\ acked' = Append(acked, fr[t].txn[1])
    /\ Return(t, "ok", [fr[t] EXCEPT !.txn = None])
    /\ UNCHANGED <<concepts, FAISS_INDEX, FAISS_LOCK, now>>

(***************************************************************************)
(* classify and _nearest_score                                             *)
(***************************************************************************)
\* Bucket with the second test an if of its own (elif lost)
Bucket_noelif(f, p, s) ==
    LET g == IF s < f.weak_thresh
             THEN [f EXCEPT !.s = Some(s), !.weak = Append(f.weak, p)]
             ELSE [f EXCEPT !.s = Some(s)]
    IN IF s > f.strong_thresh
       THEN [g EXCEPT !.strong = Append(g.strong, p)]
       ELSE [g EXCEPT !.neutral = Append(g.neutral, p)]

\* Bucket with <= and >= for < and >
Bucket_inclusive(f, p, s) ==
    IF s <= f.weak_thresh
    THEN [f EXCEPT !.s = Some(s), !.weak = Append(f.weak, p)]
    ELSE IF s >= f.strong_thresh
         THEN [f EXCEPT !.s = Some(s), !.strong = Append(f.strong, p)]
         ELSE [f EXCEPT !.s = Some(s), !.neutral = Append(f.neutral, p)]

\* lines 216-227: s is the score of phrase p, the bucket of p follows from it
Bucket(f, p, s) ==
    IF s < f.weak_thresh
    THEN [f EXCEPT !.s = Some(s), !.weak = Append(f.weak, p)]
    ELSE IF s > f.strong_thresh
         THEN [f EXCEPT !.s = Some(s), !.strong = Append(f.strong, p)]
         ELSE [f EXCEPT !.s = Some(s), !.neutral = Append(f.neutral, p)]

\* the loop moves to the next phrase
NextPhrase(f) == [f EXCEPT !.i = f.i + 1, !.key = <<>>, !.vec = <<>>,
                           !.sim = 0, !.idx = 0]

\* Seq(P) up to length n
RECURSIVE ListsUpTo(_, _)
ListsUpTo(P, n) ==
    IF n = 0 THEN {<<>>}
    ELSE LET shorter == ListsUpTo(P, n - 1)
         IN shorter \cup {Append(l, p) : l \in {x \in shorter : Len(x) = n - 1}, p \in P}

\* line 211: scores = mastery_scores(user_id)
ClassifyCall(t, U, L, TH) ==
    /\ pc[t] = "idle"
    /\ \E user_id \in U, phrases \in L, th \in TH :
          /\ ~mastery_scores_raises(user_id)
          /\ Call(t, "cl_loop",
               [NoFrame EXCEPT !.op = "classify",
                               !.user_id = user_id,
                               !.phrases = phrases,
                               !.weak_thresh = th[1],
                               !.strong_thresh = th[2],
                               !.now = now,
                               !.scores = mastery_scores(user_id),
                               !.i = 1])
    /\ UNCHANGED <<events, concepts, FAISS_INDEX, FAISS_LOCK, now, acked>>

\* lines 130-148: mastery_scores called with a half-life of its own
MasteryScoresCall(t, U, HL) ==
    /\ pc[t] = "idle"
    /\ \E user_id \in U, half_life_days \in HL :
          LET rows == raw_rows(user_id, half_life_days, now)
          IN Return(t, "ok",
                    [NoFrame EXCEPT !.op = "mastery_scores",
                                    !.user_id = user_id,
                                    !.half_life_days = half_life_days,
                                    !.now = now,
                                    !.rows = rows,
                                    !.scores = [c \in DOMAIN rows |-> squash(rows[c])]])
    /\ UNCHANGED <<events, concepts, FAISS_INDEX, FAISS_LOCK, now, acked>>

\* line 211: mastery_scores raises OverflowError, and classify with it
ClassifyCallOverflow(t, U, L, TH) ==
    /\ pc[t] = "idle"
    /\ \E user_id \in U, phrases \in L, th \in TH :
          /\ mastery_scores_raises(user_id)
          /\ Return(t, "OverflowError",
                    [NoFrame EXCEPT !.op = "classify",
                                    !.user_id = user_id,
                                    !.phrases = phrases,
                                    !.weak_thresh = th[1],
                                    !.strong_thresh = th[2]])
    /\ UNCHANGED <<events, concepts, FAISS_INDEX, FAISS_LOCK, now, acked>>

\* line 229: the loop is over, return weak, strong, neutral
ClassifyReturn(t) ==
    /\ pc[t] = "cl_loop"
    /\ fr[t].i > Len(fr[t].phrases)
    /\ Return(t, "ok", fr[t])
    /\ UNCHANGED <<events, concepts, FAISS_INDEX, FAISS_LOCK, now, acked>>

\* lines 214-227: the phrase has a score of its own
ClassifyDirect(t) ==
    /\ pc[t] = "cl_loop"
    /\ fr[t].i <= Len(fr[t].phrases)
    /\ LET p == fr[t].phrases[fr[t].i]
           key == Normalize(p)
           s == Get(fr[t].scores, key)
       IN /\ s # None
          /\ Goto(t, "cl_loop", NextPhrase(Bucket(fr[t], p, s[1])))
    /\ UNCHANGED <<events, concepts, FAISS_INDEX, FAISS_LOCK, now, acked>>

\* ClassifyMiss that registers the phrase it has no score for
ClassifyMiss_registers(t) ==
    /\ pc[t] = "cl_loop"
    /\ fr[t].i <= Len(fr[t].phrases)
    /\ LET p == fr[t].phrases[fr[t].i]
           key == Normalize(p)
           s == Get(fr[t].scores, key)
       IN /\ s = None
          /\ concepts' = IF HasConcept(key) THEN concepts
                         ELSE Append(concepts,
                                     [concept |-> key, canonical |-> key,
                                      embedding |-> tobytes(_embed(key))])
          /\ Goto(t, "ns_check", [fr[t] EXCEPT !.key = key])
    /\ UNCHANGED <<events, FAISS_INDEX, FAISS_LOCK, now, acked>>

\* lines 214-220: the phrase has no score, _nearest_score is entered
ClassifyMiss(t) ==
    /\ pc[t] = "cl_loop"
    /\ fr[t].i <= Len(fr[t].phrases)
    /\ LET p == fr[t].phrases[fr[t].i]
           key == Normalize(p)
           s == Get(fr[t].scores, key)
       IN /\ s = None
          /\ Goto(t, "ns_check", [fr[t] EXCEPT !.key = key])
    /\ UNCHANGED <<events, concepts, FAISS_INDEX, FAISS_LOCK, now, acked>>

\* lines 162-165: no index, the default is the score
NearestNoIndex(t) ==
    /\ pc[t] = "ns_check"
    /\ FAISS_INDEX = None
    /\ Goto(t, "cl_loop",
            NextPhrase(Bucket(fr[t], fr[t].phrases[fr[t].i], DEFAULT)))
    /\ UNCHANGED <<events, concepts, FAISS_INDEX, FAISS_LOCK, now, acked>>

\* lines 162-167: there is an index, vec = _embed(phrase)
NearestEmbed(t) ==
    /\ pc[t] = "ns_check"
    /\ FAISS_INDEX # None
    /\ Goto(t, "ns_lock", [fr[t] EXCEPT !.vec = _embed(fr[t].key)])
    /\ UNCHANGED <<events, concepts, FAISS_INDEX, FAISS_LOCK, now, acked>>

\* line 167: the embedding provider fails, classify raises
NearestEmbedFail(t) ==
    /\ pc[t] = "ns_check"
    /\ FAISS_INDEX # None
    /\ Return(t, "EmbeddingUnavailable", fr[t])
    /\ UNCHANGED <<events, concepts, FAISS_INDEX, FAISS_LOCK, now, acked>>

\* NearestLock that does not take the lock
NearestLock_nolock(t) ==
    /\ pc[t] = "ns_lock"
    /\ Goto(t, "ns_search", fr[t])
    /\ UNCHANGED <<events, concepts, FAISS_INDEX, FAISS_LOCK, now, acked>>

\* line 168: with FAISS_LOCK
NearestLock(t) ==
    /\ pc[t] = "ns_lock"
    /\ FAISS_LOCK = "free"
    /\ FAISS_LOCK' = t
    /\ Goto(t, "ns_search", fr[t])
    /\ UNCHANGED <<events, concepts, FAISS_INDEX, now, acked>>

\* lines 169-171: D, I = FAISS_INDEX.search(vec, 1), leaving the with block
NearestSearch(t) ==
    /\ pc[t] = "ns_search"
    /\ FAISS_LOCK' = "free"
    /\ IF FAISS_INDEX = None
       THEN Return(t, "AttributeError", fr[t])
       ELSE LET hit == Search(FAISS_INDEX[1], fr[t].vec)
            IN Goto(t, "ns_result", [fr[t] EXCEPT !.sim = hit.sim, !.idx = hit.idx])
    /\ UNCHANGED <<events, concepts, FAISS_INDEX, now, acked>>

\* lines 173-176: the neighbour is too far, the default is the score
NearestFar(t) ==
    /\ pc[t] = "ns_result"
    /\ fr[t].sim < CUTOFF
    /\ Goto(t, "cl_loop",
            NextPhrase(Bucket(fr[t], fr[t].phrases[fr[t].i], DEFAULT)))
    /\ UNCHANGED <<events, concepts, FAISS_INDEX, FAISS_LOCK, now, acked>>

\* the key list FAISS_INDEX.concepts[idx] is looked up in, line 178
LookupOutcome(f) ==
    IF FAISS_INDEX = None THEN "AttributeError"
    ELSE IF f.idx + 1 \notin 1..Len(FAISS_INDEX[1].concepts) THEN "IndexError"
    ELSE "ok"

\* NearestBlend with a neighbour the user has no score for counted as mastered
NearestBlend_optimistic(t) ==
    /\ pc[t] = "ns_result"
    /\ fr[t].sim >= CUTOFF
    /\ IF LookupOutcome(fr[t]) # "ok"
       THEN Return(t, LookupOutcome(fr[t]), fr[t])
       ELSE LET neighbour == FAISS_INDEX[1].concepts[fr[t].idx + 1]
                got == Get(fr[t].scores, neighbour)
                neighbour_score == IF got = None THEN SCORE_ONE ELSE got[1]
                score == Blend(neighbour_score, fr[t].sim, DEFAULT)
            IN Goto(t, "cl_loop",
                    NextPhrase(Bucket(fr[t], fr[t].phrases[fr[t].i], score)))
    /\ UNCHANGED <<events, concepts, FAISS_INDEX, FAISS_LOCK, now, acked>>

\* NearestBlend with scores.get(neighbour, 0.0)
NearestBlend_zero(t) ==
    /\ pc[t] = "ns_result"
    /\ fr[t].sim >= CUTOFF
    /\ IF LookupOutcome(fr[t]) # "ok"
       THEN Return(t, LookupOutcome(fr[t]), fr[t])
       ELSE LET neighbour == FAISS_INDEX[1].concepts[fr[t].idx + 1]
                got == Get(fr[t].scores, neighbour)
                neighbour_score == IF got = None THEN 0 ELSE got[1]
                score == Blend(neighbour_score, fr[t].sim, DEFAULT)
            IN Goto(t, "cl_loop",
                    NextPhrase(Bucket(fr[t], fr[t].phrases[fr[t].i], score)))
    /\ UNCHANGED <<events, concepts, FAISS_INDEX, FAISS_LOCK, now, acked>>

\* lines 178-186: the neighbour's score blended with the default
NearestBlend(t) ==
    /\ pc[t] = "ns_result"
    /\ fr[t].sim >= CUTOFF
    /\ IF LookupOutcome(fr[t]) # "ok"
       THEN Return(t, LookupOutcome(fr[t]), fr[t])
       ELSE LET neighbour == FAISS_INDEX[1].concepts[fr[t].idx + 1]
                got == Get(fr[t].scores, neighbour)
                neighbour_score == IF got = None THEN DEFAULT ELSE got[1]
                score == Blend(neighbour_score, fr[t].sim, DEFAULT)
            IN Goto(t, "cl_loop",
                    NextPhrase(Bucket(fr[t], fr[t].phrases[fr[t].i], score)))
    /\ UNCHANGED <<events, concepts, FAISS_INDEX, FAISS_LOCK, now, acked>>

(***************************************************************************)
(* The environment: the clock, and the process being stopped and started   *)
(* again over the same database file.                                      *)
(***************************************************************************)
\* time.time() advances
Tick ==
    /\ now < MaxNow
    /\ now' = now + 1
    /\ UNCHANGED <<events, concepts, FAISS_INDEX, FAISS_LOCK, pc, fr, ret, acked>>
    /\ UNCHANGED rt_vars

\* the process is stopped between calls and the module is loaded again:
\* lines 20-21 reset the globals, _init_schema (CREATE TABLE IF NOT EXISTS)
\* keeps the tables of the database file
Restart ==
    /\ \A t \in Threads : pc[t] = "idle"
    /\ FAISS_INDEX' = None
    /\ FAISS_LOCK' = "free"
    /\ pc' = [t \in Threads |-> "idle"]
    /\ fr' = [t \in Threads |-> NoFrame]
    /\ ret' = [t \in Threads |-> NoRet]
    /\ UNCHANGED <<events, concepts, now, acked>>
    /\ UNCHANGED rt_vars

(***************************************************************************)
(* Inputs.                                                                 *)
(***************************************************************************)
Users == {"alice", "bob"}
EventTypes == {"confusion", "recall_correct", "quiz"}
ConceptTexts == {<<"A", " ">>}
PhraseTexts == {<<" ", "A">>, <<"c">>, <<>>}
\* <<weak_thresh, strong_thresh>>: the defaults, a pair of reachable scores,
\* and a pair with weak_thresh > strong_thresh
Thresholds == {<<WEAK_THRESH, STRONG_THRESH>>,
               <<squash(-RAW_ONE), squash(RAW_ONE)>>,
               <<STRONG_THRESH, WEAK_THRESH>>}

\* the inputs of the concurrent specification
ConcUsers == {"alice", "bob"}
ConcEventTypes == {"confusion", "quiz"}
ConcTexts == {<<"a">>, <<"A", " ">>, <<"b">>}
ConcPhrases == {<<"c">>, <<"B">>}
\* a concurrent classify call looks at one phrase
ConcLists == {<<p>> : p \in ConcPhrases}

\* one step of thread t inside a call
Step(t) ==
    \/ UpsertKnown(t)
    \/ UpsertNew(t)
    \/ UpsertEmbed(t)
    \/ UpsertEmbedFail(t)
    \/ UpsertInsert(t)
    \/ UpsertCommit(t)
    \/ UpsertLock(t)
    \/ RebuildSelect(t)
    \/ RebuildPublish(t)
    \/ UpsertUnlock(t)
    \/ EventInsert(t)
    \/ EventCommit(t)
    \/ ClassifyReturn(t)
    \/ ClassifyDirect(t)
    \/ ClassifyMiss(t)
    \/ NearestNoIndex(t)
    \/ NearestEmbed(t)
    \/ NearestEmbedFail(t)
    \/ NearestLock(t)
    \/ NearestSearch(t)
    \/ NearestFar(t)
    \/ NearestBlend(t)

\* concurrent callers
Next ==
    \/ \E t \in Threads :
          \/ AddEventCall(t, ConcUsers, ConcTexts, ConcEventTypes, {None}, {None})
          \/ AddEventInvalid(t, ConcUsers, ConcTexts, ConcEventTypes, {None}, {None})
          \/ ClassifyCall(t, {"alice"}, ConcLists, {<<WEAK_THRESH, STRONG_THRESH>>})
          \/ Step(t)
          \/ UpsertInsertDuplicate(t)
    \/ Restart

Spec == Init /\ [][Next]_vars

\* one caller, one call at a time
NextSeq ==
    \/ AddEventCall("t1", Users, ConceptTexts, EventTypes, {None}, {None})
    \/ AddEventInvalid("t1", Users, ConceptTexts, EventTypes, {None}, {None})
    \/ ClassifyCall("t1", {"alice"}, ListsUpTo(PhraseTexts, MaxPhrases), Thresholds)
    \/ Step("t1")
    \/ Restart

SpecSeq == Init /\ [][NextSeq]_vars

\* the inputs of the nearest-neighbour specification: two concepts, and phrases
\* whose embeddings lie at cosine 0.2 (<<"a","b">> to "a"), 0.44 (<<"a","b">>
\* to "c"), 0.8 and 0.96 (<<"b","c">> to "a" and to "c") and 0 (<<>>)
NearUsers == {"alice", "bob"}
NearEventTypes == {"confusion", "recall_correct"}
NearTexts == {<<"a">>, <<"c">>}
NearPhrases == {<<"a", "b">>, <<"b", "c">>, <<"c">>, <<>>}
NearLists == {<<p>> : p \in NearPhrases}

\* one caller whose classify calls fall back on the nearest neighbour
NextNear ==
    \/ AddEventCall("t1", NearUsers, NearTexts, NearEventTypes, {None}, {None})
    \/ ClassifyCall("t1", {"alice"}, NearLists, {<<WEAK_THRESH, STRONG_THRESH>>})
    \/ Step("t1")
    \/ Restart

SpecNear == Init /\ [][NextNear]_vars

\* the inputs of the explicit-weight specification: weight omitted, 0.0,
\* 1000.0 and -1000.0, on one user and one concept
BIG_WEIGHT == 1000 * WEIGHT_ONE
Weights == {None, Some(0), Some(BIG_WEIGHT), Some(-BIG_WEIGHT)}
WeightEventTypes == {"confusion", "assumed_mastery", "recall_correct",
                     "recall_fail", "quiz"}
WeightTexts == {<<"a">>}
WeightLists == {<< <<"a">> >>, << <<"c">> >>, << <<>> >>}

\* one caller who passes explicit weights
NextWeight ==
    \/ AddEventCall("t1", {"alice"}, WeightTexts, WeightEventTypes, Weights, {None})
    \/ AddEventInvalid("t1", {"alice"}, WeightTexts, WeightEventTypes, Weights, {None})
    \/ ClassifyCall("t1", {"alice"}, WeightLists, {<<WEAK_THRESH, STRONG_THRESH>>})
    \/ ClassifyCallOverflow("t1", {"alice"}, WeightLists,
                            {<<WEAK_THRESH, STRONG_THRESH>>})
    \/ Step("t1")

SpecWeight == Init /\ [][NextWeight]_vars

\* the inputs of the clock specification: one user, one concept, events of
\* both signs, and the timestamp omitted, 0 and 1
TimeUsers == {"alice"}
TimeEventTypes == {"confusion", "recall_correct"}
TimeTexts == {<<"a">>}
TimeStamps == {None, Some(0), Some(1)}
TimeLists == {<< <<"a">> >>, << <<"c">> >>, << <<>> >>}
\* half_life_days = 30.0 and 60.0, in units of 30 days
HalfLives == {1, 2}

\* one caller, and the clock going on between and during the calls
NextTime ==
    \/ AddEventCall("t1", TimeUsers, TimeTexts, TimeEventTypes, {None}, TimeStamps)
    \/ ClassifyCall("t1", TimeUsers, TimeLists, {<<WEAK_THRESH, STRONG_THRESH>>})
    \/ MasteryScoresCall("t1", TimeUsers, HalfLives)
    \/ Step("t1")
    \/ Tick

SpecTime == Init /\ [][NextTime]_vars

\* the inputs of the two-spellings specification: lists of two phrases that
\* differ in case or in surrounding whitespace only
RaceUsers == {"alice", "bob"}
RaceTexts == {<<"c">>, <<"b", "c">>}
RaceLists == {<< <<"b", "c">>, <<"B", "C">> >>, << <<>>, <<" ">> >>}

\* thread t1 classifies while thread t2 records events
NextRace ==
    \/ AddEventCall("t2", RaceUsers, RaceTexts, {"recall_correct"}, {None}, {None})
    \/ ClassifyCall("t1", {"alice"}, RaceLists, {<<WEAK_THRESH, STRONG_THRESH>>})
    \/ Step("t1")
    \/ Step("t2")

SpecRace == Init /\ [][NextRace]_vars

\* the demo of lines 234-244: four events of alice on three concepts
Priors == <<"p", "r", "i", "o", "r", "s">>
Posterior == <<"p", "o", "s", "t", "e", "r", "i", "o", "r">>
GradientDescent == <<"g", "r", "a", "d", "i", "e", "n", "t", " ",
                     "d", "e", "s", "c", "e", "n", "t">>
DemoScript ==
    << [concept |-> Priors, event_type |-> "confusion"],
       [concept |-> Posterior, event_type |-> "confusion"],
       [concept |-> GradientDescent, event_type |-> "assumed_mastery"],
       [concept |-> GradientDescent, event_type |-> "recall_correct"] >>

\* the next add_event call of the demo
DemoAddEvent ==
    /\ Len(events) < Len(DemoScript)
    /\ LET e == DemoScript[Len(events) + 1]
       IN AddEventEnter("t1", {"alice"}, {e.concept}, {e.event_type}, {None}, {None})

\* classify(alice, ["gradient descent", "priors"]) once the events are stored
DemoClassify ==
    /\ Len(events) = Len(DemoScript)
    /\ ClassifyCall("t1", {"alice"}, {<<GradientDescent, Priors>>},
                    {<<WEAK_THRESH, STRONG_THRESH>>})

\* the demo, with the clock going on between and during the calls
NextDemo ==
    \/ DemoAddEvent
    \/ UpsertKnown("t1")
    \/ UpsertNew("t1")
    \/ UpsertEmbed("t1")
    \/ UpsertInsert("t1")
    \/ UpsertCommit("t1")
    \/ UpsertLock("t1")
    \/ RebuildSelect("t1")
    \/ RebuildPublish("t1")
    \/ UpsertUnlock("t1")
    \/ EventInsert("t1")
    \/ EventCommit("t1")
    \/ DemoClassify
    \/ ClassifyDirect("t1")
    \/ ClassifyReturn("t1")
    \/ Tick

SpecDemo == Init /\ [][NextDemo]_vars

(***************************************************************************)
(* Helpers of the properties.                                              *)
(***************************************************************************)
Range(q) == {q[i] : i \in 1..Len(q)}
Count(x, q) == Cardinality({i \in 1..Len(q) : q[i] = x})

\* the calls that have returned normally from classify
Classified == {t \in Threads : ret[t].status = "ok" /\ ret[t].fr.op = "classify"}

RegistryKeys == [i \in 1..Len(concepts) |-> concepts[i].concept]
IndexKeys == IF FAISS_INDEX = None THEN <<>> ELSE FAISS_INDEX[1].concepts

\* no _upsert_concept call stands between its INSERT and the end of its rebuild
Settled ==
    \A t \in Threads :
        pc[t] \notin {"upsert_commit", "upsert_lock", "rebuild_select", "rebuild_publish"}

InRebuild(t) == pc[t] \in {"rebuild_select", "rebuild_publish"}
InSearch(t) == pc[t] = "ns_search"

TypeOK ==
    /\ FAISS_LOCK \in Threads \cup {"free"}
    /\ now \in 1..MaxNow
    /\ Len(events) <= MaxEvents \/ Len(events) <= Len(DemoScript)

(***************************************************************************)
(* C1. classify returns three lists whose lengths sum to the length of the *)
(* input, and every occurrence of an input phrase is in exactly one of     *)
(* weak, strong, neutral: each phrase occurs in the three lists together   *)
(* as often as in the input, and nothing else occurs in them.              *)
(***************************************************************************)
C1_Partition ==
    \A t \in Classified :
        LET f == ret[t].fr
        IN /\ Len(f.weak) + Len(f.strong) + Len(f.neutral) = Len(f.phrases)
           /\ Range(f.weak) \cup Range(f.strong) \cup Range(f.neutral) = Range(f.phrases)
           /\ \A p \in Range(f.phrases) :
                 Count(p, f.weak) + Count(p, f.strong) + Count(p, f.neutral)
                     = Count(p, f.phrases)

\* a classify call has returned for a list that holds the empty string twice
\* and whose phrases have no score
C1_Witness ==
    \E t \in Classified :
        /\ ret[t].fr.phrases = << <<>>, <<>> >>
        /\ ret[t].fr.scores = <<>>
        /\ Len(ret[t].fr.weak) = 2

(***************************************************************************)
(* C2. With weak_thresh <= strong_thresh, a phrase whose normalized form   *)
(* has a score s in mastery_scores(user) is in weak iff s < weak_thresh,   *)
(* in strong iff s > strong_thresh and in neutral otherwise; and           *)
(* _nearest_score is never entered for a phrase that has a score.          *)
(***************************************************************************)
C2_DirectScore ==
    /\ \A t \in Classified :
          LET f == ret[t].fr
              scores == mastery_scores(f.user_id)
          IN f.weak_thresh <= f.strong_thresh =>
                \A p \in Range(f.phrases) :
                    Normalize(p) \in DOMAIN scores =>
                        LET sc == scores[Normalize(p)]
                        IN /\ p \in Range(f.weak) <=> sc < f.weak_thresh
                           /\ p \in Range(f.strong) <=> sc > f.strong_thresh
                           /\ p \in Range(f.neutral) <=>
                                 (sc >= f.weak_thresh /\ sc <= f.strong_thresh)
    /\ \A t \in Threads :
          pc[t] \in {"ns_check", "ns_lock", "ns_search", "ns_result"} =>
              fr[t].key \notin DOMAIN fr[t].scores

\* a phrase whose score equals weak_thresh has been placed in neutral, with
\* no index in memory
C2_Witness ==
    \E t \in Classified :
        LET f == ret[t].fr
        IN /\ f.weak_thresh = squash(-RAW_ONE)
           /\ f.strong_thresh = squash(RAW_ONE)
           /\ Get(mastery_scores(f.user_id), <<"a">>) = Some(f.weak_thresh)
           /\ f.neutral = << <<" ", "A">> >>
           /\ FAISS_INDEX = None

(***************************************************************************)
(* C3. Whenever no _upsert_concept call stands between its registry insert *)
(* and the end of its rebuild, the key list of the index holds exactly the *)
(* keys of the concept registry, each once.                                *)
(***************************************************************************)
C3_IndexMirrorsRegistry ==
    Settled =>
        /\ Range(IndexKeys) = Range(RegistryKeys)
        /\ Len(IndexKeys) = Cardinality(Range(IndexKeys))

(***************************************************************************)
(* C4. FAISS_INDEX is None if and only if the concept registry holds no    *)
(* concept (in the states in which no registry insert awaits its rebuild), *)
(* a newly started process over a filled registry included.                *)
(***************************************************************************)
C4_NoIndexIffEmptyRegistry ==
    Settled => (FAISS_INDEX = None <=> concepts = <<>>)

(***************************************************************************)
(* C5. The concept of every stored event, and of every event a call is     *)
(* about to insert or commit, is a key of the concept registry.            *)
(***************************************************************************)
C5_EventConceptRegistered ==
    /\ \A i \in 1..Len(events) : HasConcept(events[i].concept)
    /\ \A t \in Threads :
          pc[t] \in {"event_insert", "event_commit"} => HasConcept(fr[t].concept)

\* an event is stored although another call on the same concept has failed
C5_Witness ==
    /\ Len(events) >= 1
    /\ \E t \in Threads :
          /\ ret[t].status \in {"IntegrityError", "EmbeddingUnavailable"}
          /\ ret[t].fr.concept = events[1].concept

(***************************************************************************)
(* C6. Every event whose add_event call has returned normally is a         *)
(* committed row of the event log: its concept is a key of                 *)
(* mastery_scores(user) and the row is among those the sum runs over.      *)
(***************************************************************************)
C6_AckedEventVisible ==
    \A i \in 1..Len(acked) :
        /\ acked[i].concept \in DOMAIN mastery_scores(acked[i].user_id)
        /\ Count(acked[i], acked) <= Count(acked[i], events)

\* two calls have returned, the process has been started again, and a classify
\* call of another thread has read a score for the concept
C6_Witness ==
    /\ Len(acked) = 2
    /\ FAISS_INDEX = None
    /\ \E t \in Threads :
          /\ fr[t].op = "classify"
          /\ acked[1].concept \in DOMAIN fr[t].scores

(***************************************************************************)
(* C7. A rebuild and a search run only under FAISS_LOCK, so never at the   *)
(* same time, and a published index is complete: its key list has as many  *)
(* entries as it has vectors, and at least one.                            *)
(***************************************************************************)
C7_RebuildSearchExclusive ==
    /\ \A t \in Threads : (InRebuild(t) \/ InSearch(t)) => FAISS_LOCK = t
    /\ \A t, u \in Threads :
          t # u => ~((InRebuild(t) \/ InSearch(t)) /\ (InRebuild(u) \/ InSearch(u)))
    /\ FAISS_INDEX # None =>
          /\ Len(FAISS_INDEX[1].concepts) = FAISS_INDEX[1].ntotal
          /\ Len(FAISS_INDEX[1].vecs) = FAISS_INDEX[1].ntotal
          /\ FAISS_INDEX[1].ntotal >= 1

\* a rebuild is about to publish over an index while a search waits for the lock
C7_Witness ==
    /\ FAISS_INDEX # None
    /\ \E t, u \in Threads :
          /\ pc[t] = "rebuild_publish"
          /\ pc[u] = "ns_lock"

(***************************************************************************)
(* C8. At the lookup FAISS_INDEX.concepts[idx] the index is not None and   *)
(* idx is a position of its key list; no call ends in AttributeError or    *)
(* IndexError.                                                             *)
(***************************************************************************)
C8_LookupInRange ==
    /\ \A t \in Threads :
          pc[t] = "ns_result" =>
              /\ FAISS_INDEX # None
              /\ fr[t].idx + 1 \in 1..Len(FAISS_INDEX[1].concepts)
    /\ \A t \in Threads : pc[t] = "ns_search" => FAISS_INDEX # None
    /\ \A t \in Threads : ret[t].status \notin {"AttributeError", "IndexError"}

\* the lookup is about to run in an index that replaced the one searched:
\* the search of "c" answered position 0, and the index now holds <<a, b>>,
\* where the search would have answered position 1
C8_Witness ==
    \E t \in Threads :
        /\ pc[t] = "ns_result"
        /\ fr[t].sim >= CUTOFF
        /\ fr[t].idx = 0
        /\ IndexKeys = << <<"a">>, <<"b">> >>

(***************************************************************************)
(* C9. An add_event call with a valid event type, with the embedding       *)
(* provider answering, returns normally whatever other add_event calls run *)
(* beside it: no call ends in the store's IntegrityError.                  *)
(***************************************************************************)
C9_ConcurrentAddEventReturns ==
    \A t \in Threads :
        ret[t].fr.op = "add_event" =>
            ret[t].status \in {"ok", "ValueError", "EmbeddingUnavailable"}

(***************************************************************************)
(* C10. The texts "a" and "A " (equal after lower-casing and trimming) get *)
(* the one key "a", every key is its own normal form, and the registry has *)
(* at most one row per key.                                                *)
(***************************************************************************)
C10_OneRowPerKey ==
    /\ \A t \in Threads :
          (fr[t].op = "add_event" /\ fr[t].text \in {<<"a">>, <<"A", " ">>}) =>
              fr[t].concept = <<"a">>
    /\ \A i \in 1..Len(concepts) :
          /\ concepts[i].concept \in {<<"a">>, <<"b">>}
          /\ \A j \in 1..Len(concepts) :
                concepts[i].concept = concepts[j].concept => i = j

\* two calls spelled the concept differently, both found no row, one
\* inserted it and the other was refused
C10_Witness ==
    \E t, u \in Threads :
        /\ ret[t].status = "IntegrityError"
        /\ ret[t].fr.text = <<"A", " ">>
        /\ fr[u].op = "add_event"
        /\ fr[u].text = <<"a">>
        /\ RegistryKeys = << <<"a">> >>
(***************************************************************************)
(* C11. When the embedding provider fails while add_event registers a new  *)
(* concept, the error reaches the caller and nothing is written: the       *)
(* failing step leaves events, concepts and the index as they were, no     *)
(* transaction is open, and once the call has returned there is no row of  *)
(* concepts, no row of events and no index entry for its concept.          *)
(***************************************************************************)
C11_EmbedFailureWritesNothing ==
    [][\A t \in Threads :
         /\ (pc[t] = "upsert_embed" /\ pc'[t] = "idle") =>
               /\ ret'[t].status = "EmbeddingUnavailable"
               /\ fr[t].txn = None
               /\ events' = events
               /\ concepts' = concepts
               /\ FAISS_INDEX' = FAISS_INDEX
         /\ (ret'[t].status = "EmbeddingUnavailable"
                /\ ret'[t].fr.op = "add_event") =>
               /\ \A i \in 1..Len(concepts') :
                     concepts'[i].concept # ret'[t].fr.concept
               /\ \A i \in 1..Len(events') :
                     events'[i].concept # ret'[t].fr.concept
               /\ ret'[t].fr.concept \notin Range(IndexKeys')
               /\ ret'[t].fr.vec = <<>>]_vars

\* the provider has failed on a new concept while another concept is stored,
\* has an event and is in the index
C11_Witness ==
    /\ ret["t1"].status = "EmbeddingUnavailable"
    /\ ret["t1"].fr.op = "add_event"
    /\ Len(concepts) >= 1
    /\ Len(events) >= 1
    /\ FAISS_INDEX # None

(***************************************************************************)
(* C12. add_event with an event type outside the weight table and no       *)
(* explicit weight fails before anything is written: the step that returns *)
(* ValueError leaves events, concepts and the index as they were, it has   *)
(* neither normalized the concept nor asked for an embedding nor opened a  *)
(* transaction, and no row of such a call is ever in the event log.        *)
(***************************************************************************)
C12_InvalidKindWritesNothing ==
    [][\A t \in Threads :
         /\ (ret'[t].status = "ValueError" /\ ret'[t] # ret[t]) =>
               /\ pc[t] = "idle" /\ pc'[t] = "idle"
               /\ events' = events
               /\ concepts' = concepts
               /\ FAISS_INDEX' = FAISS_INDEX
               /\ FAISS_LOCK' = FAISS_LOCK
               /\ ret'[t].fr.concept = <<>>
               /\ ret'[t].fr.vec = <<>>
               /\ ret'[t].fr.txn = None
         /\ (fr'[t].op = "add_event" /\ fr[t].op # "add_event") =>
               fr'[t].w \in {_EVENT_WEIGHTS[e] : e \in DOMAIN _EVENT_WEIGHTS}]_vars

\* the call has been rejected on a database that holds a concept, its event
\* and its index entry
C12_Witness ==
    /\ ret["t1"].status = "ValueError"
    /\ Len(concepts) >= 1
    /\ Len(events) >= 1
    /\ FAISS_INDEX # None

(***************************************************************************)
(* C13. A classify call made while there is no index does not fail, and    *)
(* every phrase of its list is in the bucket that the default score        *)
(* selects against the thresholds of the call.                             *)
(***************************************************************************)
C13_NoIndexDefaultBucket ==
    \A t \in Threads :
        LET f == ret[t].fr
            all == f.phrases
        IN (f.op = "classify" /\ ret[t].status # "none" /\ FAISS_INDEX = None) =>
              /\ ret[t].status = "ok"
              /\ f.weak = IF DEFAULT < f.weak_thresh THEN all ELSE <<>>
              /\ f.strong = IF DEFAULT >= f.weak_thresh /\ DEFAULT > f.strong_thresh
                            THEN all ELSE <<>>
              /\ f.neutral = IF DEFAULT >= f.weak_thresh /\ DEFAULT <= f.strong_thresh
                             THEN all ELSE <<>>

C15_StrongNeedsOwnNeighbourScore ==
    \A t \in Classified :
        LET f == ret[t].fr
        IN (/\ f.weak_thresh = WEAK_THRESH
            /\ f.strong_thresh = STRONG_THRESH
            /\ Len(f.phrases) = 1
            /\ Normalize(f.phrases[1]) \notin DOMAIN f.scores
            /\ f.strong # <<>>) =>
               /\ FAISS_INDEX # None
               /\ LET index == FAISS_INDEX[1]
                      vec == _embed(Normalize(f.phrases[1]))
                      cos == [i \in 1..index.ntotal |-> Dot(index.vecs[i], vec)]
                      top == CHOOSE i \in 1..index.ntotal :
                                /\ \A j \in 1..index.ntotal : cos[j] <= cos[i]
                                /\ \A j \in 1..(i - 1) : cos[j] < cos[i]
                      neighbour == index.concepts[top]
                  IN /\ 5 * cos[top] >= SIM_ONE
                     /\ neighbour \in DOMAIN mastery_scores(f.user_id)
                     /\ mastery_scores(f.user_id)[neighbour] > STRONG_THRESH

\* a phrase without a score is in strong: it lies at cosine 0.96 from a
\* concept the user has answered correctly twice
C15_Witness ==
    \E t \in Classified :
        LET f == ret[t].fr
        IN /\ f.phrases = << <<"b", "c">> >>
           /\ <<"b", "c">> \notin DOMAIN f.scores
           /\ f.strong = << <<"b", "c">> >>
           /\ Get(f.scores, <<"c">>) = Some(squash(2 * RAW_ONE))
           /\ f.weak_thresh = WEAK_THRESH /\ f.strong_thresh = STRONG_THRESH

C17_ScoreKeysAreEventConcepts ==
    /\ \A u \in Users \cup {"carol"} :
          LET scores == mastery_scores(u)
              mine == {i \in 1..Len(events) : events[i].user_id = u}
          IN /\ \A i \in mine : events[i].concept \in DOMAIN scores
             /\ \A k \in DOMAIN scores :
                   /\ \E i \in mine : events[i].concept = k
                   /\ k = Normalize(k)
             /\ (mine = {}) => scores = <<>>
    /\ \A t \in Threads :
          fr[t].op = "classify" =>
             DOMAIN fr[t].scores =
                {events[i].concept :
                    i \in {j \in 1..Len(events) : events[j].user_id = fr[t].user_id}}

\* the two events of one user on a concept sum to zero and the concept is
\* scored 0.5, the other user has no events and an empty map, and a classify
\* call has worked on that map
C17_Witness ==
    /\ Len(events) = 2
    /\ \A i \in 1..2 : events[i].user_id = "alice" /\ events[i].concept = <<"a">>
    /\ events[1].weight + events[2].weight = 0
    /\ mastery_scores("alice") = [k \in {<<"a">>} |-> SCORE_ONE \div 2]
    /\ mastery_scores("bob") = <<>>
    /\ \E t \in Classified : ret[t].fr.scores = mastery_scores("alice")

(***************************************************************************)
(* C18. mastery_scores has no failure mode: for every stored event         *)
(* history, explicit weights of any size and sign included, it returns     *)
(* without raising, every score is strictly between 0 and 1, and no        *)
(* classify call fails on the size of a raw score.                         *)
(***************************************************************************)
C18_ScoresInOpenUnitInterval ==
    /\ \A u \in Users :
          /\ ~mastery_scores_raises(u)
          /\ \A k \in DOMAIN mastery_scores(u) :
                /\ 0 < mastery_scores(u)[k]
                /\ mastery_scores(u)[k] < SCORE_ONE
    /\ \A t \in Threads : ret[t].status # "OverflowError"

(***************************************************************************)
(* C19. The event log is append-only. A step either leaves events as it is *)
(* or appends the one row (user, normalized concept, weight, timestamp) of *)
(* an add_event call that returns normally with this step; every add_event *)
(* that returns normally has appended one row; and the score of a concept  *)
(* is squash of the sum over all rows of the user on it, repeated rows     *)
(* included.                                                               *)
(***************************************************************************)
C19_EventLogAppendOnly ==
    [][/\ \/ events' = events
          \/ \E t \in Threads :
                /\ pc[t] = "event_commit"
                /\ ret'[t].status = "ok"
                /\ events' = Append(events,
                                    [user_id |-> fr[t].user_id,
                                     concept |-> Normalize(fr[t].text),
                                     weight |-> fr[t].w,
                                     ts |-> fr[t].ts])
       /\ \A t \in Threads :
             (ret'[t].status = "ok" /\ ret'[t].fr.op = "add_event"
                  /\ ret[t].status # "ok") =>
                Len(events') = Len(events) + 1
       /\ \A u \in ConcUsers, k \in {events'[i].concept : i \in 1..Len(events')} :
             LET rows == {i \in 1..Len(events') :
                             events'[i].user_id = u /\ events'[i].concept = k}
                 total[n \in 0..Len(events')] ==
                     IF n = 0 THEN 0
                     ELSE total[n - 1]
                          + (IF n \in rows
                             THEN events'[n].weight * (RAW_ONE \div WEIGHT_ONE)
                             ELSE 0)
             IN (rows # {} /\ \A i \in rows : events'[i].ts = now') =>
                   /\ k \in DOMAIN mastery_scores(u)'
                   /\ mastery_scores(u)'[k] = squash(total[Len(events')])
      ]_vars

\* two add_event calls with the same user, concept, weight and timestamp have
\* returned; both rows are stored and the score is squash(-2)
C19_Witness ==
    /\ Len(events) = 2
    /\ events[1] = events[2]
    /\ Len(acked) = 2
    /\ mastery_scores(events[1].user_id)[events[1].concept] = squash(-2 * RAW_ONE)

(***************************************************************************)
(* C20. _upsert_concept on a key that is registered is a no-op: the call   *)
(* goes from its SELECT straight to the event INSERT without an embedding, *)
(* a transaction, the lock or a rebuild, the registry and the index stay   *)
(* as they are, and no step ever changes a stored row of concepts.         *)
(***************************************************************************)
C20_UpsertKnownIsNoOp ==
    [][/\ \A t \in Threads :
             (/\ pc[t] = "upsert_select"
              /\ HasConcept(fr[t].concept)
              /\ pc'[t] # pc[t]) =>
                /\ pc'[t] = "event_insert"
                /\ fr'[t] = fr[t]
                /\ fr'[t].vec = <<>>
                /\ fr'[t].txn = None
                /\ concepts' = concepts
                /\ FAISS_INDEX' = FAISS_INDEX
                /\ FAISS_LOCK' = FAISS_LOCK
       /\ Len(concepts') >= Len(concepts)
       /\ \A i \in 1..Len(concepts) : concepts'[i] = concepts[i]
      ]_vars

\* after a restart there is no index; an add_event call on a registered
\* concept has passed _upsert_concept without an embedding and without a
\* rebuild
C20_Witness ==
    \E t \in Threads :
        /\ pc[t] = "event_insert"
        /\ HasConcept(fr[t].concept)
        /\ fr[t].vec = <<>>
        /\ FAISS_INDEX = None
        /\ FAISS_LOCK = "free"

(***************************************************************************)
(* C21. The weight of the row add_event stores is the explicit weight      *)
(* whenever one is given, for a known or an unknown event type and for the *)
(* value 0.0 too, and otherwise the table value of the event type:         *)
(* confusion -1.0, assumed_mastery +0.1, recall_correct +1.0,              *)
(* recall_fail -1.0.                                                       *)
(***************************************************************************)
C21_StoredWeight ==
    [][\A t \in Threads :
         (pc[t] = "event_commit" /\ pc'[t] = "idle") =>
            LET f == fr[t]
                tenth == WEIGHT_ONE \div 10
                table == CASE f.event_type = "confusion" -> -10 * tenth
                           [] f.event_type = "assumed_mastery" -> tenth
                           [] f.event_type = "recall_correct" -> 10 * tenth
                           [] f.event_type = "recall_fail" -> -10 * tenth
            IN /\ Len(events') = Len(events) + 1
               /\ events'[Len(events')].weight =
                     IF f.weight # None THEN f.weight[1] ELSE table]_vars

\* rows are stored for an assumed_mastery event without a weight (+0.1) and
\* then for an event of an unknown type with the explicit weight 0.0
C21_Witness ==
    /\ Len(events) = 2
    /\ events[1].weight = WEIGHT_ONE \div 10
    /\ events[2].weight = 0
    /\ ret["t1"].status = "ok"
    /\ ret["t1"].fr.event_type = "quiz"
    /\ ret["t1"].fr.weight = Some(0)

(***************************************************************************)
(* C22. The timestamp add_event stores is the caller's timestamp whenever  *)
(* one is supplied, the value 0 included, and the time of the call only    *)
(* when the argument is omitted.                                           *)
(***************************************************************************)
C22_StoredTimestamp ==
    [][\A t \in Threads :
         /\ (pc[t] = "idle" /\ pc'[t] = "upsert_select") =>
               fr'[t].ts = IF fr'[t].ts_arg # None THEN fr'[t].ts_arg[1] ELSE now
         /\ (pc[t] = "event_commit" /\ pc'[t] = "idle") =>
               /\ Len(events') = Len(events) + 1
               /\ events'[Len(events')].ts = fr[t].ts]_vars

(***************************************************************************)
(* C23. classify compares phrases by their normalized form and outputs     *)
(* them as they were given: in the result of one call, two phrases of the  *)
(* list with the same normalized form are in the same bucket, also when    *)
(* another thread has recorded events during the call, and the buckets     *)
(* hold the phrases in their original spelling.                            *)
(***************************************************************************)
C23_SameKeySameBucket ==
    \A t \in Classified :
        LET f == ret[t].fr
        IN /\ Range(f.weak) \cup Range(f.strong) \cup Range(f.neutral)
                 = Range(f.phrases)
           /\ \A p, q \in Range(f.phrases) :
                 Normalize(p) = Normalize(q) =>
                    /\ p \in Range(f.weak) <=> q \in Range(f.weak)
                    /\ p \in Range(f.strong) <=> q \in Range(f.strong)
                    /\ p \in Range(f.neutral) <=> q \in Range(f.neutral)

(***************************************************************************)
(* C24. After the four events of the demo, every later                     *)
(* classify(alice, ["gradient descent", "priors"]) with the default        *)
(* thresholds places "priors" in weak and does not place "gradient         *)
(* descent" in weak, however much time has gone by since the events.       *)
(***************************************************************************)
C24_DemoAtAnyTime ==
    \A t \in Classified :
        LET f == ret[t].fr
        IN f.phrases = <<GradientDescent, Priors>> =>
              /\ Priors \in Range(f.weak)
              /\ GradientDescent \notin Range(f.weak)

(***************************************************************************)
(* C24, amended. After the four events of the demo, a later                *)
(* classify(alice, ["gradient descent", "priors"]) with the default        *)
(* thresholds never places "gradient descent" in weak; it places "priors"  *)
(* in weak while the event on "priors" is at most one half-life old, and   *)
(* in neutral once that event is two half-lives old or older.              *)
(***************************************************************************)
C24_DemoWithinOneHalfLife ==
    \A t \in Classified :
        LET f == ret[t].fr
            age == f.now - events[1].ts
        IN f.phrases = <<GradientDescent, Priors>> =>
              /\ GradientDescent \notin Range(f.weak)
              /\ (age <= 1 => Priors \in Range(f.weak))
              /\ (age >= 2 => Priors \in Range(f.neutral))

\* the demo's classify call was made one half-life after the event on
\* "priors" and has placed "priors" in weak and "gradient descent" in neutral
C24_Witness ==
    \E t \in Classified :
        LET f == ret[t].fr
        IN /\ f.phrases = <<GradientDescent, Priors>>
           /\ f.now - events[1].ts = 1
           /\ f.weak = <<Priors>>
           /\ f.neutral = <<GradientDescent>>

(***************************************************************************)
(* C25. For a half-life h, an event whose age at aggregation time is h     *)
(* contributes half of what it contributes at age 0, which is its weight,  *)
(* and its contribution halves again with every further h of age; with    *)
(* the half-life left at its default the rows are those classify works on. *)
(***************************************************************************)
C25_HalfLifeHalves ==
    \A t \in Threads :
        LET f == ret[t].fr
        IN (ret[t].status = "ok" /\ f.op = "mastery_scores") =>
              /\ \A k \in DOMAIN f.rows :
                    LET mine == {i \in 1..Len(events) :
                                    /\ events[i].user_id = f.user_id
                                    /\ events[i].concept = k}
                        e == events[CHOOSE i \in mine : TRUE]
                        age == f.now - e.ts
                        halvings == age \div f.half_life_days
                        pow2 == CASE halvings = 0 -> 1
                                  [] halvings = 1 -> 2
                                  [] halvings = 2 -> 4
                                  [] halvings = 3 -> 8
                    IN (Cardinality(mine) = 1 /\ age % f.half_life_days = 0) =>
                          f.rows[k] * pow2 = e.weight * (RAW_ONE \div WEIGHT_ONE)
              /\ (f.half_life_days = 1 /\ f.now = now) =>
                    f.scores = mastery_scores(f.user_id)

\* mastery_scores was called with a half-life of 60 days on one confusion
\* event that is 60 days old: the raw score is -0.5
C25_Witness ==
    \E t \in Threads :
        LET f == ret[t].fr
        IN /\ ret[t].status = "ok" /\ f.op = "mastery_scores"
           /\ f.half_life_days = 2
           /\ Len(events) = 1
           /\ f.now - events[1].ts = 2
           /\ events[1].weight = -WEIGHT_ONE
           /\ f.rows[<<"a">>] * 2 = -RAW_ONE

(***************************************************************************)
(* C26. In _nearest_score, whatever _upsert_concept calls replace the      *)
(* index between the search and the key lookup, the key the blend uses is  *)
(* the key of the concept the search matched: the search answers a         *)
(* position of the index it ran in, and as long as the call waits with     *)
(* that position every index published keeps the same key, with the same   *)
(* vector, at it.                                                          *)
(***************************************************************************)
C26_NeighbourKeyIsMatchedConcept ==
    [][\A t \in Threads :
         /\ (pc[t] = "ns_search" /\ pc'[t] = "ns_result") =>
               /\ FAISS_INDEX' = FAISS_INDEX
               /\ fr'[t].idx + 1 \in 1..FAISS_INDEX[1].ntotal
               /\ \A j \in 1..FAISS_INDEX[1].ntotal :
                     Dot(FAISS_INDEX[1].vecs[j], fr[t].vec)
                        <= Dot(FAISS_INDEX[1].vecs[fr'[t].idx + 1], fr[t].vec)
               /\ fr'[t].sim = Dot(FAISS_INDEX[1].vecs[fr'[t].idx + 1], fr[t].vec)
         /\ (pc[t] = "ns_result" /\ pc'[t] = "ns_result") =>
               /\ FAISS_INDEX' # None
               /\ fr'[t].idx = fr[t].idx
               /\ fr[t].idx + 1 \in 1..FAISS_INDEX'[1].ntotal
               /\ FAISS_INDEX'[1].concepts[fr[t].idx + 1]
                     = FAISS_INDEX[1].concepts[fr[t].idx + 1]
               /\ FAISS_INDEX'[1].vecs[fr[t].idx + 1]
                     = FAISS_INDEX[1].vecs[fr[t].idx + 1]
         /\ (pc[t] = "ns_result" /\ pc'[t] # "ns_result") =>
               pc'[t] = "cl_loop"]_vars

\* the index was replaced after the search: the call holds the position of
\* "a" with its cosine, the index in memory has a closer concept, and
\* position 0 is still "a"
C26_Witness ==
    \E t \in Threads :
        /\ pc[t] = "ns_result"
        /\ fr[t].sim >= CUTOFF
        /\ FAISS_INDEX[1].concepts[fr[t].idx + 1] = <<"a">>
        /\ Dot(_embed(<<"a">>), fr[t].vec) = fr[t].sim
        /\ \E j \in 1..FAISS_INDEX[1].ntotal :
              Dot(FAISS_INDEX[1].vecs[j], fr[t].vec) > fr[t].sim

(***************************************************************************)
(* C27. mastery_scores(u) depends on the events of user u and on the       *)
(* aggregation time only: it is the map computed on the store that holds   *)
(* the rows of u alone, whatever other users have recorded, and a row      *)
(* appended for another user leaves it, and with it the bucket of every    *)
(* phrase u has a score for, as it was.                                    *)
(***************************************************************************)
C27_ScoresOfUserOnly ==
    [][\A u \in Users :
         LET own == SelectSeq(events', LAMBDA r : r.user_id = u)
             keys == {own[i].concept : i \in 1..Len(own)}
         IN /\ mastery_scores(u)' = [c \in keys |-> squash(SumRows(own, u, c, now'))]
            /\ (/\ Len(events') = Len(events) + 1
                /\ events'[Len(events')].user_id # u
                /\ now' = now) =>
                  mastery_scores(u)' = mastery_scores(u)]_vars

\* alice and bob have opposite events on one concept, each has the score of
\* their own event, and a classify call of alice has placed the phrase in weak
C27_Witness ==
    /\ Len(events) = 2
    /\ events[1].user_id = "alice" /\ events[2].user_id = "bob"
    /\ events[1].concept = events[2].concept
    /\ mastery_scores("alice")[events[1].concept] = squash(-RAW_ONE)
    /\ mastery_scores("bob")[events[1].concept] = squash(RAW_ONE)
    /\ \E t \in Classified :
          /\ ret[t].fr.user_id = "alice"
          /\ ret[t].fr.scores = mastery_scores("alice")
          /\ ret[t].fr.weak = << <<" ", "A">> >>

(***************************************************************************)
(* C28. When the nearest concept of a phrase without a score lies at the   *)
(* cutoff or closer but the user has no score for it, the score of the     *)
(* phrase is the default -0.5 whatever the cosine is, and the phrase is in *)
(* weak under the default thresholds, as on the path without an index.     *)
(***************************************************************************)
C28_UnscoredNeighbourGivesDefault ==
    \A t \in Classified :
        LET f == ret[t].fr
        IN (/\ Len(f.phrases) = 1
            /\ Normalize(f.phrases[1]) \notin DOMAIN f.scores
            /\ FAISS_INDEX # None) =>
               LET index == FAISS_INDEX[1]
                   vec == _embed(Normalize(f.phrases[1]))
                   cos == [i \in 1..index.ntotal |-> Dot(index.vecs[i], vec)]
                   top == CHOOSE i \in 1..index.ntotal :
                             /\ \A j \in 1..index.ntotal : cos[j] <= cos[i]
                             /\ \A j \in 1..(i - 1) : cos[j] < cos[i]
               IN (5 * cos[top] >= SIM_ONE
                      /\ index.concepts[top] \notin DOMAIN f.scores) =>
                     /\ f.s = Some(-(SCORE_ONE \div 2))
                     /\ f.weak = f.phrases
                     /\ f.strong = <<>>
                     /\ f.neutral = <<>>

\* the phrase "c" is a concept registered through bob's events only; alice's
\* classify call has found it at cosine 1.0 and placed it in weak
C28_Witness ==
    \E t \in Classified :
        LET f == ret[t].fr
        IN /\ f.user_id = "alice"
           /\ f.phrases = << <<"c">> >>
           /\ <<"c">> \notin DOMAIN f.scores
           /\ <<"c">> \in DOMAIN mastery_scores("bob")
           /\ <<"c">> \in Range(IndexKeys)
           /\ f.s = Some(DEFAULT)
           /\ f.weak = << <<"c">> >>

(***************************************************************************)
(* C29. As the aggregation time advances over an unchanged event log whose *)
(* timestamps are in the past, the raw sum of every (user, concept) keeps  *)
(* its sign and does not grow in magnitude, and the score moves toward     *)
(* 0.5: with the default thresholds a concept that is weak afterwards was  *)
(* weak before, and one that is strong afterwards was strong before.       *)
(***************************************************************************)
C29_DecayTowardNeutral ==
    [][(now' > now /\ events' = events) =>
          \A u \in TimeUsers :
             \A k \in DOMAIN mastery_scores(u) :
                LET before == SumRows(events, u, k, now)
                    after == SumRows(events, u, k, now')
                    s1 == mastery_scores(u)[k]
                    s2 == mastery_scores(u)'[k]
                    half == SCORE_ONE \div 2
                IN /\ \A i \in 1..Len(events) : events[i].ts <= now
                   /\ (before > 0 => after > 0 /\ after <= before)
                   /\ (before < 0 => after < 0 /\ after >= before)
                   /\ (before = 0 => after = 0)
                   /\ (s1 >= half => s2 >= half /\ s2 <= s1)
                   /\ (s1 <= half => s2 <= half /\ s2 >= s1)
                   /\ (s2 < WEAK_THRESH => s1 < WEAK_THRESH)
                   /\ (s2 > STRONG_THRESH => s1 > STRONG_THRESH)]_vars

\* a concept with a single confusion event was weak when the event was
\* recorded and is neutral two half-lives later
C29_Witness ==
    /\ Len(events) = 1
    /\ events[1].weight = -WEIGHT_ONE
    /\ now = events[1].ts + 2
    /\ squash(SumRows(events, "alice", events[1].concept, events[1].ts)) < WEAK_THRESH
    /\ mastery_scores("alice")[events[1].concept] >= WEAK_THRESH
    /\ mastery_scores("alice")[events[1].concept] < SCORE_ONE \div 2

(***************************************************************************)
(* mac-app/screenpipe-realtime-mcp/fast_server.py: the monitoring switch   *)
(* of ScreenPipeRealtime.  The server runs on one asyncio event loop, so a *)
(* coroutine runs undisturbed from one suspension to the next: each action *)
(* below is one such stretch.  start_realtime_monitoring holds no await.   *)
(* stop_realtime_monitoring suspends once, at "await self._poll_task".     *)
(* _poll_loop suspends only at "await asyncio.sleep(2)", for               *)
(* get_latest_window_content fetches with the blocking requests.get and    *)
(* never yields.  A task is "created" before its first step, "sleeping" in *)
(* asyncio.sleep, "cancelling" once cancel() was called on it and the      *)
(* CancelledError is still to be thrown into it, and "done" afterwards.    *)
(***************************************************************************)
Live(k) == tasks[k] \in {"created", "sleeping", "cancelling"}

\* A live task that was not cancelled: it polls whenever it next runs with
\* is_streaming set.
Polling(k) == tasks[k] \in {"created", "sleeping"}

\* asyncio.create_task: the next task of the event loop.
NewTask == CHOOSE k \in TaskIds :
               /\ tasks[k] = "unborn"
               /\ \A j \in TaskIds : j < k => tasks[j] # "unborn"

\* Task.cancel(): a finished task ignores it, a live one is marked.
Cancel(k) == IF tasks[k] = "done" THEN tasks
             ELSE [tasks EXCEPT ![k] = "cancelling"]

\* start_realtime_monitoring, called by the tool start_window_monitoring.
StartRealtimeMonitoring(h) ==
    /\ handler[h].pc = "idle"
    /\ is_streaming \/ \E k \in TaskIds : tasks[k] = "unborn"
    /\ IF is_streaming
       THEN UNCHANGED rt_vars
       ELSE /\ is_streaming' = TRUE
            /\ tasks' = [tasks EXCEPT ![NewTask] = "created"]
            /\ _poll_task' = Some(NewTask)
            /\ UNCHANGED handler
    /\ UNCHANGED mastery_vars

\* stop_realtime_monitoring up to its await, called by the tool
\* stop_window_monitoring.  Awaiting a finished task does not suspend.
StopRealtimeMonitoring(h) ==
    /\ handler[h].pc = "idle"
    /\ is_streaming' = FALSE
    /\ IF _poll_task = None
       THEN UNCHANGED <<_poll_task, tasks, handler>>
       ELSE /\ tasks' = Cancel(_poll_task[1])
            /\ IF tasks[_poll_task[1]] = "done"
               THEN /\ _poll_task' = None
                    /\ UNCHANGED handler
               ELSE /\ handler' = [handler EXCEPT ![h] =
                                      [pc |-> "stop_await", awaits |-> _poll_task[1]]]
                    /\ UNCHANGED _poll_task
    /\ UNCHANGED mastery_vars

\* stop_realtime_monitoring after its await: the awaited task has finished.
StopResume(h) ==
    /\ handler[h].pc = "stop_await"
    /\ tasks[handler[h].awaits] = "done"
    /\ _poll_task' = None
    /\ handler' = [handler EXCEPT ![h] = HandlerIdle]
    /\ UNCHANGED <<is_streaming, tasks>>
    /\ UNCHANGED mastery_vars

\* _poll_loop from its start, or from the end of a sleep, through the test of
\* the while: one poll and into the next sleep, or out of the loop.
PollLoopIterate(k) ==
    /\ Polling(k)
    /\ tasks' = [tasks EXCEPT ![k] = IF is_streaming THEN "sleeping" ELSE "done"]
    /\ UNCHANGED <<is_streaming, _poll_task, handler>>
    /\ UNCHANGED mastery_vars

\* The CancelledError reaches _poll_loop: "except Exception" does not hold it
\* back, and the sleep stands outside the try.
PollLoopCancelled(k) ==
    /\ tasks[k] = "cancelling"
    /\ tasks' = [tasks EXCEPT ![k] = "done"]
    /\ UNCHANGED <<is_streaming, _poll_task, handler>>
    /\ UNCHANGED mastery_vars

NextRT ==
    \/ \E h \in Handlers : StartRealtimeMonitoring(h)
    \/ \E h \in Handlers : StopRealtimeMonitoring(h)
    \/ \E h \in Handlers : StopResume(h)
    \/ \E k \in TaskIds : PollLoopIterate(k)
    \/ \E k \in TaskIds : PollLoopCancelled(k)

SpecRT == Init /\ [][NextRT]_vars

\* No call of stop_realtime_monitoring is in flight and none of
\* start_realtime_monitoring came after the last one.
StopReturned ==
    /\ ~is_streaming
    /\ \A h \in Handlers : handler[h].pc = "idle"
    /\ tasks[1] # "unborn"

\* C30: however start_realtime_monitoring and stop_realtime_monitoring
\* interleave at their awaits, at most one _poll_loop task is polling at any
\* time, and once stop_realtime_monitoring has returned with no start after
\* it, no _poll_loop task is left alive.
C30_AtMostOnePollLoop ==
    /\ Cardinality({k \in TaskIds : Polling(k)}) <= 1
    /\ StopReturned => \A k \in TaskIds : ~Live(k)

====
